---- MODULE Spec2Model ----
(***************************************************************************)
(* WhereToBuy: the candidate verification and ranking cascade.             *)
(*                                                                         *)
(* Four variants of the cascade live in the repository:                    *)
(*   "TC"    WhereToBuyTC.py      hybrid_search (vintage / varietal rules) *)
(*   "Test"  WhereToBuyTest.py    hybrid_search (brand / e-commerce rules) *)
(*   "final" WhereToBuyfinal.py   hybrid_search_and_verify + __main__      *)
(*   "API"   WhereToBuyfinalAPIWrapper.py  search_drink                    *)
(*                                                                         *)
(* Text is a sequence of one-character strings, so that lower-casing,      *)
(* regular-expression clean-up and Python's substring test `a in b` are    *)
(* computed rather than assumed.  None and "" are both the empty sequence: *)
(* the code only ever tests these optional fields for truthiness.          *)
(* The scores of the fuzz library (rapidfuzz / fuzzywuzzy) are inputs: the *)
(* record fz carries the library's answers for one (target, candidate).    *)
(***************************************************************************)
EXTENDS Integers, Sequences, FiniteSets, TLC

VARIABLES
    variant,           \* which script runs
    pc,                \* position inside the running cascade
    target,            \* product_name, producer, varietal, vintage
    image_url,         \* reference image locator, None when absent
    shopping_results,  \* what the text backend returned
    lens_results,      \* what the image backend returned
    verified_results,  \* accepted candidates accumulated so far
    llm_reply,         \* what the generative backend answered
    calls,             \* backend calls made so far, in order
    result,            \* value returned to the caller
    saved,             \* value handed to persistence
    outcome,           \* "running", "returned" or the error that ended the run
    vp_in,             \* arguments of one verification call
    vp_out,            \* what the three verification functions return for vp_in
    ff_in,             \* arguments of one call of a stand-alone filter
    ff_out,            \* what the filter returned
    embed_requests,    \* input lists sent to the embedding backend, in order
    cl_in,             \* argument of one call of clean()
    cl_out,            \* what clean() returned for cl_in, and for that result again
    db,                \* the products table of the API wrapper: one row per product id
    reqs,              \* the search_drink requests being served, each with its locals
    finished           \* the requests that ended, in the order in which they ended

cascadeVars == <<variant, pc, target, image_url, shopping_results, lens_results,
                 verified_results, llm_reply, calls, result, saved, outcome>>
verifyVars == <<vp_in, vp_out>>
filterVars == <<ff_in, ff_out, embed_requests>>
cleanVars == <<cl_in, cl_out>>
serverVars == <<db, reqs, finished>>
vars == <<cascadeVars, verifyVars, filterVars, cleanVars, serverVars>>

-----------------------------------------------------------------------------
(* Text *)

None == <<>>

SP == <<" ">>

UpperChars == <<"A","B","C","D","E","F","G","H","I","J","K","L","M",
                "N","O","P","Q","R","S","T","U","V","W","X","Y","Z">>
LowerChars == <<"a","b","c","d","e","f","g","h","i","j","k","l","m",
                "n","o","p","q","r","s","t","u","v","w","x","y","z">>
DigitChars == {"0","1","2","3","4","5","6","7","8","9"}
Whitespace == {" ", "\t", "\n"}

Range(s) == {s[i] : i \in DOMAIN s}

RECURSIVE Cat(_)
Cat(ss) == IF ss = <<>> THEN <<>> ELSE Head(ss) \o Cat(Tail(ss))

\* words joined by single spaces
Words(ws) == Cat([i \in DOMAIN ws |-> IF i = 1 THEN ws[i] ELSE SP \o ws[i]])

\* Python: a in b
IsSubstr(a, b) == \E i \in 0..(Len(b) - Len(a)) : SubSeq(b, i + 1, i + Len(a)) = a

LowerChar(c) ==
    IF \E i \in DOMAIN UpperChars : UpperChars[i] = c
    THEN LowerChars[CHOOSE i \in DOMAIN UpperChars : UpperChars[i] = c]
    ELSE c

\* Python: s.lower()
Lower(s) == [i \in DOMAIN s |-> LowerChar(s[i])]

RECURSIVE LStrip(_)
LStrip(s) == IF s # <<>> /\ Head(s) \in Whitespace THEN LStrip(Tail(s)) ELSE s

RECURSIVE RStrip(_)
RStrip(s) ==
    IF s # <<>> /\ s[Len(s)] \in Whitespace THEN RStrip(SubSeq(s, 1, Len(s) - 1)) ELSE s

\* Python: s.strip()
Strip(s) == RStrip(LStrip(s))

\* re.sub(<class>+, " ", s): every maximal run of characters of cls becomes one space
RECURSIVE SubRuns(_, _)
SubRuns(s, cls) ==
    IF s = <<>> THEN <<>>
    ELSE IF Head(s) \in cls
         THEN IF Len(s) > 1 /\ s[2] \in cls
              THEN SubRuns(Tail(s), cls)
              ELSE SP \o SubRuns(Tail(s), cls)
         ELSE <<Head(s)>> \o SubRuns(Tail(s), cls)

AlnumLower == Range(LowerChars) \cup DigitChars

\* clean of WhereToBuyTC without the final .strip()
clean_TC_nostrip(text) ==
    IF text = None THEN <<>>
    ELSE LET low == Lower(text)
         IN SubRuns(low, Range(low) \ AlnumLower)

\* WhereToBuyTC.clean: re.sub(r"[^a-z0-9]+", " ", text.lower()).strip()
clean_TC(text) ==
    IF text = None THEN <<>>
    ELSE LET low == Lower(text)
         IN Strip(SubRuns(low, Range(low) \ AlnumLower))

\* WhereToBuyTest.clean and the clean nested in verify_with_brand_priority:
\* re.sub(r'\s+', ' ', str(text).lower().strip())
clean(text) ==
    IF text = None THEN <<>>
    ELSE SubRuns(Strip(Lower(text)), Whitespace)

-----------------------------------------------------------------------------
(* The fuzz library.  fz is [ratio, partial_ratio, token_sort_ratio,       *)
(* token_set_ratio, brand_partial_ratio], each 0..100.                     *)

Max(a, b) == IF a >= b THEN a ELSE b

\* fuzz.partial_ratio(needle, hay): 100 when a non-empty needle occurs in hay
\* (the best-aligned window of hay is the needle itself), else the library's score.
partial_ratio(needle, hay, score) ==
    IF needle # <<>> /\ IsSubstr(needle, hay) THEN 100 ELSE score

-----------------------------------------------------------------------------
(* Verification policies *)

\* verify_product without its vintage check (lines 56-58 dropped)
verify_product_TC_novintage(target_name, candidate_name, vintage, varietal, threshold, fz) ==
    LET candidate_clean == clean_TC(candidate_name)
        name_score == fz.token_sort_ratio
        varietal_clean == clean_TC(varietal)
        missing == varietal # None /\ varietal_clean # <<>>
                   /\ ~IsSubstr(varietal_clean, candidate_clean)
    IN IF name_score < threshold
       THEN [match |-> FALSE, status |-> "Rejected", confidence |-> name_score,
             reason |-> <<"Name score too low">>, fuzz_calls |-> 1]
       ELSE [match |-> TRUE,
             status |-> IF missing THEN "Likely" ELSE "Verified",
             confidence |-> IF missing THEN (name_score * 9) \div 10 ELSE name_score,
             reason |-> <<"Name matched">>, fuzz_calls |-> 1]

\* verify_product without the confidence penalty of line 78
verify_product_TC_nopenalty(target_name, candidate_name, vintage, varietal, threshold, fz) ==
    LET candidate_clean == clean_TC(candidate_name)
        name_score == fz.token_sort_ratio
        varietal_clean == clean_TC(varietal)
        missing == varietal # None /\ varietal_clean # <<>>
                   /\ ~IsSubstr(varietal_clean, candidate_clean)
    IN IF vintage # None /\ ~IsSubstr(vintage, candidate_name)
       THEN [match |-> FALSE, status |-> "Rejected", confidence |-> 0,
             reason |-> <<"Vintage not found in candidate">>, fuzz_calls |-> 0]
       ELSE IF name_score < threshold
            THEN [match |-> FALSE, status |-> "Rejected", confidence |-> name_score,
                  reason |-> <<"Name score too low">>, fuzz_calls |-> 1]
            ELSE [match |-> TRUE,
                  status |-> IF missing THEN "Likely" ELSE "Verified",
                  confidence |-> name_score,
                  reason |-> <<"Name matched">>, fuzz_calls |-> 1]

\* WhereToBuyTC.verify_product; fuzz_calls counts the calls of fuzz.token_sort_ratio
verify_product_TC(target_name, candidate_name, vintage, varietal, threshold, fz) ==
    LET target_clean == clean_TC(target_name)
        candidate_clean == clean_TC(candidate_name)
    IN IF vintage # None /\ ~IsSubstr(vintage, candidate_name)
       THEN [match |-> FALSE, status |-> "Rejected", confidence |-> 0,
             reason |-> <<"Vintage not found in candidate">>, fuzz_calls |-> 0]
       ELSE LET name_score == fz.token_sort_ratio
            IN IF name_score < threshold
               THEN [match |-> FALSE, status |-> "Rejected", confidence |-> name_score,
                     reason |-> <<"Name score too low">>, fuzz_calls |-> 1]
               ELSE LET varietal_clean == clean_TC(varietal)
                        missing == varietal # None /\ varietal_clean # <<>>
                                   /\ ~IsSubstr(varietal_clean, candidate_clean)
                    IN [match |-> TRUE,
                        status |-> IF missing THEN "Likely" ELSE "Verified",
                        confidence |-> IF missing THEN (name_score * 9) \div 10
                                       ELSE name_score,
                        reason |-> <<"Name matched">>
                                   \o (IF vintage # None THEN <<"vintage ok">> ELSE <<>>)
                                   \o (IF varietal # None
                                          /\ IsSubstr(varietal_clean, candidate_clean)
                                       THEN <<"varietal matched">> ELSE <<>>),
                        fuzz_calls |-> 1]

\* default e_commerce_sites of WhereToBuyTest.verify_product
e_commerce_sites ==
    << <<"a","m","a","z","o","n">>, <<"e","b","a","y">>,
       <<"d","o","o","r","d","a","s","h">>, <<"u","b","e","r","e","a","t","s">>,
       <<"t","e","s","c","o">>, <<"o","c","a","d","o">> >>

BrandMatchLevel == 90

\* verify_product without Step 2, the brand check (lines 73-84 dropped)
verify_product_Test_nobrand(target_product, candidate_product, store_name, brand, threshold, high_name_threshold, fz) ==
    LET store_clean == clean(store_name)
        name_score == Max(fz.ratio, Max(fz.partial_ratio, fz.token_sort_ratio))
        ecom == \E i \in DOMAIN e_commerce_sites : IsSubstr(e_commerce_sites[i], store_clean)
    IN IF name_score < threshold
       THEN [match |-> FALSE, status |-> "Rejected",
             reason |-> <<"Product name fuzzy score too low">>]
       ELSE IF ecom \/ name_score >= high_name_threshold
            THEN [match |-> TRUE, status |-> "Likely", reason |-> <<"Name score">>]
            ELSE [match |-> FALSE, status |-> "Rejected", reason |-> <<"Name score">>]

\* verify_product without Step 1, the name gate (lines 69-70 dropped)
verify_product_Test_nogate(target_product, candidate_product, store_name, brand, threshold, high_name_threshold, fz) ==
    LET candidate_clean == clean(candidate_product)
        store_clean == clean(store_name)
        name_score == Max(fz.ratio, Max(fz.partial_ratio, fz.token_sort_ratio))
        ecom == \E i \in DOMAIN e_commerce_sites : IsSubstr(e_commerce_sites[i], store_clean)
    IN IF brand # None
          /\ partial_ratio(clean(brand), candidate_clean, fz.brand_partial_ratio)
                >= BrandMatchLevel
       THEN [match |-> TRUE, status |-> "Verified", reason |-> <<"Brand matched">>]
       ELSE IF ecom \/ name_score >= high_name_threshold
            THEN [match |-> TRUE, status |-> "Likely", reason |-> <<"Brand weak">>]
            ELSE [match |-> FALSE, status |-> "Rejected", reason |-> <<"Brand mismatch">>]

\* verify_product with the e-commerce tests of Steps 2 and 3 dropped (lines 79-80, 87-88)
verify_product_Test_noallowlist(target_product, candidate_product, store_name, brand, threshold, high_name_threshold, fz) ==
    LET candidate_clean == clean(candidate_product)
        name_score == Max(fz.ratio, Max(fz.partial_ratio, fz.token_sort_ratio))
    IN IF name_score < threshold
       THEN [match |-> FALSE, status |-> "Rejected",
             reason |-> <<"Product name fuzzy score too low">>]
       ELSE IF brand # None
               /\ partial_ratio(clean(brand), candidate_clean, fz.brand_partial_ratio)
                     >= BrandMatchLevel
            THEN [match |-> TRUE, status |-> "Verified", reason |-> <<"Brand matched">>]
            ELSE IF name_score >= high_name_threshold
                 THEN [match |-> TRUE, status |-> "Likely", reason |-> <<"strong name">>]
                 ELSE [match |-> FALSE, status |-> "Rejected", reason |-> <<"weak name">>]

\* verify_product with the last return accepting the candidate it calls Rejected
verify_product_Test_weakmatch(target_product, candidate_product, store_name, brand, threshold, high_name_threshold, fz) ==
    LET target_clean == clean(target_product)
        candidate_clean == clean(candidate_product)
        store_clean == clean(store_name)
        name_score == Max(fz.ratio, Max(fz.partial_ratio, fz.token_sort_ratio))
        ecom == \E i \in DOMAIN e_commerce_sites : IsSubstr(e_commerce_sites[i], store_clean)
    IN IF name_score < threshold
       THEN [match |-> FALSE, status |-> "Rejected",
             reason |-> <<"Product name fuzzy score too low">>]
       ELSE IF brand # None
            THEN LET brand_clean == clean(brand)
                     brand_score == partial_ratio(brand_clean, candidate_clean,
                                                  fz.brand_partial_ratio)
                 IN IF brand_score >= BrandMatchLevel
                    THEN [match |-> TRUE, status |-> "Verified",
                          reason |-> <<"Name score", "Brand matched">>]
                    ELSE IF ecom
                         THEN [match |-> TRUE, status |-> "Likely",
                               reason |-> <<"Name score", "Brand weak but store is e-commerce">>]
                         ELSE IF name_score >= high_name_threshold
                              THEN [match |-> TRUE, status |-> "Likely",
                                    reason |-> <<"Name score",
                                                 "Brand weak, Non-e-commerce but strong name">>]
                              ELSE [match |-> FALSE, status |-> "Rejected",
                                    reason |-> <<"Name score",
                                                 "Brand mismatch, Non-e-commerce, weak name">>]
            ELSE IF ecom
                 THEN [match |-> TRUE, status |-> "Likely",
                       reason |-> <<"Name score", "Brand missing but store is e-commerce">>]
                 ELSE IF name_score >= high_name_threshold
                      THEN [match |-> TRUE, status |-> "Likely",
                            reason |-> <<"Name score",
                                         "Brand missing, Non-e-commerce but strong name">>]
                      ELSE [match |-> TRUE, status |-> "Rejected",
                            reason |-> <<"Name score",
                                         "Brand missing, Non-e-commerce, weak name">>]

\* WhereToBuyTest.verify_product
verify_product_Test(target_product, candidate_product, store_name, brand, threshold, high_name_threshold, fz) ==
    LET target_clean == clean(target_product)
        candidate_clean == clean(candidate_product)
        store_clean == clean(store_name)
        name_score == Max(fz.ratio, Max(fz.partial_ratio, fz.token_sort_ratio))
        ecom == \E i \in DOMAIN e_commerce_sites : IsSubstr(e_commerce_sites[i], store_clean)
    IN IF name_score < threshold
       THEN [match |-> FALSE, status |-> "Rejected",
             reason |-> <<"Product name fuzzy score too low">>]
       ELSE IF brand # None
            THEN LET brand_clean == clean(brand)
                     brand_score == partial_ratio(brand_clean, candidate_clean,
                                                  fz.brand_partial_ratio)
                 IN IF brand_score >= BrandMatchLevel
                    THEN [match |-> TRUE, status |-> "Verified",
                          reason |-> <<"Name score", "Brand matched">>]
                    ELSE IF ecom
                         THEN [match |-> TRUE, status |-> "Likely",
                               reason |-> <<"Name score", "Brand weak but store is e-commerce">>]
                         ELSE IF name_score >= high_name_threshold
                              THEN [match |-> TRUE, status |-> "Likely",
                                    reason |-> <<"Name score",
                                                 "Brand weak, Non-e-commerce but strong name">>]
                              ELSE [match |-> FALSE, status |-> "Rejected",
                                    reason |-> <<"Name score",
                                                 "Brand mismatch, Non-e-commerce, weak name">>]
            ELSE IF ecom
                 THEN [match |-> TRUE, status |-> "Likely",
                       reason |-> <<"Name score", "Brand missing but store is e-commerce">>]
                 ELSE IF name_score >= high_name_threshold
                      THEN [match |-> TRUE, status |-> "Likely",
                            reason |-> <<"Name score",
                                         "Brand missing, Non-e-commerce but strong name">>]
                      ELSE [match |-> FALSE, status |-> "Rejected",
                            reason |-> <<"Name score",
                                         "Brand missing, Non-e-commerce, weak name">>]

\* WhereToBuyfinal.verify_with_brand_priority: (is_match, reason)
verify_with_brand_priority(target_product, candidate_product, brand, threshold, fz) ==
    LET target_clean == clean(target_product)
        candidate_clean == clean(candidate_product)
    IN IF brand # None /\ ~IsSubstr(clean(brand), candidate_clean)
       THEN [match |-> FALSE, reason |-> <<"Brand mismatch">>]
       ELSE LET best_score == Max(fz.ratio, Max(fz.partial_ratio, fz.token_sort_ratio))
            IN [match |-> best_score >= threshold, reason |-> <<"Fuzzy match score">>]

-----------------------------------------------------------------------------
(* Inputs: the product being searched and what the backends may answer *)

MaxText == 4    \* longest answer of the text backend
MaxLens == 1    \* longest answer of the image backend
MaxLLM == 2     \* longest list the generative backend suggests

Oak == <<"O","a","k">>
Acme == <<"A","c","m","e">>
Red == <<"R","e","d">>
Y2010 == <<"2","0","1","0">>
Y2015 == <<"2","0","1","5">>
Reserve == <<"R","e","s","e","r","v","e">>
Miniature == <<"M","i","n","i","a","t","u","r","e">>

Targets ==
    { [product_name |-> Oak, producer |-> Acme, varietal |-> Red, vintage |-> Y2010],
      [product_name |-> Oak, producer |-> Acme, varietal |-> None, vintage |-> None],
      [product_name |-> Oak, producer |-> None, varietal |-> None, vintage |-> None],
      [product_name |-> None, producer |-> None, varietal |-> None, vintage |-> None] }

\* get_product_from_db found no row for the product_id (cursor.fetchone() is None)
NoRow == [id |-> "unknown"]

\* One SerpAPI item with the fuzz library's scores of its title against the target;
\* cosine is the similarity of the two embeddings, in hundredths.
Catalogue ==
    { [item |-> [title |-> Words(<<Oak, Acme, Red, Y2010>>),
                 source |-> Words(<<Acme, <<"D","i","r","e","c","t">> >>),
                 price |-> "P10", rating |-> "4.5", link |-> "L1", thumbnail |-> "T1"],
       fz |-> [ratio |-> 100, partial_ratio |-> 100, token_sort_ratio |-> 100,
               token_set_ratio |-> 100, brand_partial_ratio |-> 100,
               cosine |-> 96]],
      [item |-> [title |-> Words(<<Oak, Acme, Red, Y2010, Miniature>>),
                 source |-> Words(<<Acme, <<"D","i","r","e","c","t">> >>),
                 price |-> "P12", rating |-> "4.5", link |-> "L1", thumbnail |-> "T1"],
       fz |-> [ratio |-> 92, partial_ratio |-> 100, token_sort_ratio |-> 92,
               token_set_ratio |-> 100, brand_partial_ratio |-> 100,
               cosine |-> 100]],
      [item |-> [title |-> Words(<<Oak, Acme, Y2010>>),
                 source |-> Words(<<<<"W","i","n","e">>, <<"S","h","o","p">> >>),
                 price |-> "P11", rating |-> "None", link |-> "L3", thumbnail |-> "T3"],
       fz |-> [ratio |-> 88, partial_ratio |-> 88, token_sort_ratio |-> 88,
               token_set_ratio |-> 100, brand_partial_ratio |-> 100,
               cosine |-> 80]],
      [item |-> [title |-> Words(<<Oak, Reserve, Y2015>>),
                 source |-> <<"T","e","s","c","o">>,
                 price |-> "None", rating |-> "None", link |-> "L4", thumbnail |-> "None"],
       fz |-> [ratio |-> 86, partial_ratio |-> 86, token_sort_ratio |-> 82,
               token_set_ratio |-> 70, brand_partial_ratio |-> 40,
               cosine |-> 70]] }

Items == {e.item : e \in Catalogue}

\* the library's scores for a candidate name returned by a backend
FuzzOf(product_name) == (CHOOSE e \in Catalogue : e.item.title = product_name).fz

\* every answer a search backend may give, up to n items
Responses(n) == UNION {[1..k -> Items] : k \in 0..n}

\* what the text backend may answer for a product: a search without a product name
\* finds nothing
TextAnswers(t) == IF t.product_name = None THEN {<<>>} ELSE Responses(MaxText)

\* Suggestions the generative backend may make; the second lacks url and reason.
Places ==
    { [store_name |-> <<"M","a","j","e","s","t","i","c">>, url |-> "U1", reason |-> "R1"],
      [store_name |-> <<"W","a","i","t","r","o","s","e">>] }

JsonValues ==
    {[type |-> "array", items |-> ps] : ps \in UNION {[1..k -> Places] : k \in 0..MaxLLM}}
    \cup {[type |-> "object"]}

\* api = "raise": chat.completions.create raised.  Otherwise the reply text is a JSON
\* value alone ("json"), inside a markdown fence ("fenced"), inside prose ("prose"),
\* or holds no JSON at all ("garbage").
LLMReplies ==
    {[api |-> "raise"], [api |-> "ok", form |-> "garbage"]}
    \cup {[api |-> "ok", form |-> f, value |-> v] : f \in {"json", "fenced", "prose"},
                                                     v \in JsonValues}

EmptyArray == [type |-> "array", items |-> <<>>]

\* Python truthiness of a parsed JSON value (the object modelled is non-empty)
Truthy(v) == v.type = "object" \/ v.items # <<>>

\* dict.update
Update(d, u) == [k \in DOMAIN d \cup DOMAIN u |-> IF k \in DOMAIN u THEN u[k] ELSE d[k]]

\* Python: xs[:n]
Take(xs, n) == SubSeq(xs, 1, IF Len(xs) < n THEN Len(xs) ELSE n)

\* f"{product_name} {producer or ''} {varietal or ''} {vintage or ''}".strip()
target_product(t) ==
    Strip(t.product_name \o SP \o t.producer \o SP \o t.varietal \o SP \o t.vintage)

-----------------------------------------------------------------------------
(* WhereToBuyTC.py *)

TC_fuzzy_threshold == 85

\* search_product: the fields kept of each shopping item
search_product_TC(items) ==
    [i \in DOMAIN items |->
        [product_name |-> items[i].title, store_name |-> items[i].source,
         price |-> items[i].price, rating |-> items[i].rating, link |-> items[i].link]]

\* search_with_google_lens (the same in WhereToBuyTC, WhereToBuyTest, WhereToBuyfinal)
search_with_google_lens(items) ==
    [i \in DOMAIN items |->
        [product_name |-> items[i].title, store_name |-> items[i].source,
         link |-> items[i].link, thumbnail |-> items[i].thumbnail]]

TC_verdict(t, r) ==
    verify_product_TC(target_product(t), r.product_name, t.vintage, t.varietal,
                      TC_fuzzy_threshold, FuzzOf(r.product_name))

\* the loop with `if match:` dropped: every candidate is kept
TC_accept_all(t, results, source) ==
    [i \in DOMAIN results |->
        LET v == TC_verdict(t, results[i])
        IN Update(results[i], [verification_reason |-> v.reason, source |-> source,
                               category |-> v.status, confidence |-> v.confidence])]

\* the loop over one backend's candidates: verify each, keep the matches
TC_accept(t, results, source) ==
    LET matched == SelectSeq(results, LAMBDA r : TC_verdict(t, r).match)
    IN [i \in DOMAIN matched |->
           LET v == TC_verdict(t, matched[i])
           IN Update(matched[i], [verification_reason |-> v.reason, source |-> source,
                                  category |-> v.status, confidence |-> v.confidence])]

\* query_llm_for_places: the parsed reply, [] when the call or the parse fails
query_llm_for_places(reply) ==
    IF reply.api = "raise" THEN EmptyArray
    ELSE IF reply.form \in {"json", "fenced"} THEN reply.value
    ELSE EmptyArray

UnknownStore == <<"U","n","k","n","o","w","n"," ","S","t","o","r","e">>

TC_llm_result(t, place) ==
    [product_name |-> target_product(t),
     store_name |-> IF "store_name" \in DOMAIN place THEN place.store_name ELSE UnknownStore,
     link |-> IF "url" \in DOMAIN place THEN place.url ELSE "",
     reason |-> IF "reason" \in DOMAIN place THEN place.reason ELSE "AI recommendation",
     verification_reason |-> <<"AI-generated suggestion (no direct match found)">>,
     source |-> "LLM Fallback",
     category |-> "Suggested"]

\* line 259: the image stage of WhereToBuyTC runs whenever an image is given
TC_runs_image(text_matches, img) == img # None

\* the fallback with its guard dropped
TC_fallback_always(matches) == TRUE

\* line 294: if not verified_results
TC_runs_fallback(matches) == matches = <<>>

TC_after_image(matches) == IF TC_runs_fallback(matches) THEN "fallback" ELSE "return"

TC_TextSearch ==
    /\ variant = "TC" /\ pc = "start"
    /\ \E items \in TextAnswers(target) :
         LET found == search_product_TC(items)
             matches == TC_accept(target, found, "Google Shopping")
         IN /\ shopping_results' = found
            /\ verified_results' = matches
            /\ pc' = IF TC_runs_image(matches, image_url) THEN "image"
                     ELSE TC_after_image(matches)
    /\ calls' = Append(calls, "text")
    /\ UNCHANGED <<variant, target, image_url, lens_results, llm_reply, result, saved,
                   outcome, verifyVars, filterVars, cleanVars, serverVars>>

TC_ImageSearch ==
    /\ variant = "TC" /\ pc = "image"
    /\ \E items \in Responses(MaxLens) :
         LET found == search_with_google_lens(items)
             matches == verified_results \o TC_accept(target, found, "Google Lens")
         IN /\ lens_results' = found
            /\ verified_results' = matches
            /\ pc' = TC_after_image(matches)
    /\ calls' = Append(calls, "image")
    /\ UNCHANGED <<variant, target, image_url, shopping_results, llm_reply, result, saved,
                   outcome, verifyVars, filterVars, cleanVars, serverVars>>

\* lines 294-319; iterating a JSON object yields its keys, and str has no .get
TC_Fallback ==
    /\ variant = "TC" /\ pc = "fallback"
    /\ \E reply \in LLMReplies :
         LET llm_results == query_llm_for_places(reply)
         IN /\ llm_reply' = reply
            /\ IF Truthy(llm_results) /\ llm_results.type = "object"
               THEN /\ outcome' = "AttributeError"
                    /\ pc' = "done"
                    /\ UNCHANGED verified_results
               ELSE /\ verified_results' = verified_results
                         \o [i \in DOMAIN llm_results.items |->
                                TC_llm_result(target, llm_results.items[i])]
                    /\ pc' = "return"
                    /\ UNCHANGED outcome
    /\ calls' = Append(calls, "llm")
    /\ UNCHANGED <<variant, target, image_url, shopping_results, lens_results, result,
                   saved, verifyVars, filterVars, cleanVars, serverVars>>

\* update_where_to_buy: the three (name, url) slots written for the product
update_where_to_buy(results) ==
    [idx \in 1..3 |->
        IF idx <= Len(results)
        THEN [name |-> results[idx].store_name,
              url |-> IF results[idx].link = "None" THEN "" ELSE results[idx].link]
        ELSE [name |-> None, url |-> "None"]]

\* line 322: final_results = verified_results[:3]
TC_final_results(matches) == Take(matches, 3)

\* hybrid_search returns; __main__ displays and persists what it returned
TC_Return ==
    /\ variant = "TC" /\ pc = "return"
    /\ result' = TC_final_results(verified_results)
    /\ saved' = update_where_to_buy(result')
    /\ outcome' = "returned"
    /\ pc' = "done"
    /\ UNCHANGED <<variant, target, image_url, shopping_results, lens_results,
                   verified_results, llm_reply, calls, verifyVars, filterVars, cleanVars, serverVars>>

-----------------------------------------------------------------------------
(* WhereToBuyTest.py *)

Test_fuzzy_threshold == 85
Test_high_name_threshold == 90

\* search_product of WhereToBuyTest, WhereToBuyfinal and the API wrapper
search_product(items) ==
    [i \in DOMAIN items |->
        [product_name |-> items[i].title, store_name |-> items[i].source,
         price |-> items[i].price, rating |-> items[i].rating, link |-> items[i].link,
         thumbnail |-> items[i].thumbnail]]

Test_verdict(t, r) ==
    verify_product_Test(target_product(t), r.product_name, r.store_name, t.producer,
                        Test_fuzzy_threshold, Test_high_name_threshold,
                        FuzzOf(r.product_name))

Test_accept(t, results, source) ==
    LET matched == SelectSeq(results, LAMBDA r : Test_verdict(t, r).match)
    IN [i \in DOMAIN matched |->
           LET v == Test_verdict(t, matched[i])
           IN Update(matched[i], [verification_reason |-> v.reason, source |-> source,
                                  category |-> v.status])]

\* the guard with its second conjunct dropped
Test_runs_image_any(found, matches, img) == img # None

\* line 195: if image_url and (not shopping_results or not verified_results)
Test_runs_image(found, matches, img) == img # None /\ (found = <<>> \/ matches = <<>>)

\* lines 240-242: for result in verified_results:
\*                    if result not in final_results and len(final_results) < 3
RECURSIVE Test_fill(_, _)
Test_fill(final_results, rest) ==
    IF rest = <<>> THEN final_results
    ELSE Test_fill(IF Head(rest) \notin Range(final_results) /\ Len(final_results) < 3
                   THEN Append(final_results, Head(rest))
                   ELSE final_results,
                   Tail(rest))

\* the selection without the step that puts a Likely result first
Test_final_results_first3(matches) == Take(matches, 3)

\* lines 234-245: the first Likely result first, then the others in order, three at most
Test_final_results(matches) ==
    LET likely == SelectSeq(matches, LAMBDA r : r.category = "Likely")
        first == IF likely = <<>> THEN <<>> ELSE <<Head(likely)>>
    IN Take(Test_fill(first, matches), 3)

Test_TextSearch ==
    /\ variant = "Test" /\ pc = "start"
    /\ \E items \in TextAnswers(target) :
         LET found == search_product(items)
             matches == Test_accept(target, found, "Google Shopping")
         IN /\ shopping_results' = found
            /\ verified_results' = matches
            /\ pc' = IF Test_runs_image(found, matches, image_url) THEN "image" ELSE "return"
    /\ calls' = Append(calls, "text")
    /\ UNCHANGED <<variant, target, image_url, lens_results, llm_reply, result, saved,
                   outcome, verifyVars, filterVars, cleanVars, serverVars>>

Test_ImageSearch ==
    /\ variant = "Test" /\ pc = "image"
    /\ \E items \in Responses(MaxLens) :
         LET found == search_with_google_lens(items)
         IN /\ lens_results' = found
            /\ verified_results' = verified_results \o Test_accept(target, found, "Google Lens")
    /\ calls' = Append(calls, "image")
    /\ pc' = "return"
    /\ UNCHANGED <<variant, target, image_url, shopping_results, llm_reply, result, saved,
                   outcome, verifyVars, filterVars, cleanVars, serverVars>>

\* hybrid_search returns; __main__ only prints the result
Test_Return ==
    /\ variant = "Test" /\ pc = "return"
    /\ result' = Test_final_results(verified_results)
    /\ outcome' = "returned"
    /\ pc' = "done"
    /\ UNCHANGED <<variant, target, image_url, shopping_results, lens_results,
                   verified_results, llm_reply, calls, saved, verifyVars, filterVars, cleanVars, serverVars>>

-----------------------------------------------------------------------------
(* WhereToBuyfinal.py *)

final_fuzzy_threshold == 80

final_verdict(t, r) ==
    verify_with_brand_priority(target_product(t), r.product_name, t.producer,
                               final_fuzzy_threshold, FuzzOf(r.product_name))

final_accept(t, results, source) ==
    LET matched == SelectSeq(results, LAMBDA r : final_verdict(t, r).match)
    IN [i \in DOMAIN matched |->
           Update(matched[i], [verification_reason |-> final_verdict(t, matched[i]).reason,
                               source |-> source])]

\* safe_json_extract: json.loads, else the text between the first "[" and the last "]"
safe_json_extract(reply) ==
    IF reply.form = "json" THEN reply.value
    ELSE IF reply.form \in {"fenced", "prose"} /\ reply.value.type = "array" THEN reply.value
    ELSE EmptyArray

GenericRetailer ==
    [store_name |-> <<"G","e","n","e","r","i","c"," ","U","K"," ","B","e","v","e","r","a","g","e",
                      " ","R","e","t","a","i","l","e","r">>,
     url |-> "", reason |-> "Suggested fallback store"]

\* llm_fallback_search, given a reply of the backend that did not raise
llm_fallback_search(reply) ==
    LET results == safe_json_extract(reply)
    IN IF ~Truthy(results) THEN [type |-> "array", items |-> <<GenericRetailer>>]
       ELSE results

DigitOf(n) == <<"0","1","2","3","4","5","6","7","8","9">>[n + 1]

\* lines 176-184
final_formatted(t, fallback_results) ==
    [idx \in DOMAIN fallback_results |->
        LET r == fallback_results[idx]
        IN [product_name |-> t.product_name,
            store_name |-> IF "store_name" \in DOMAIN r THEN r.store_name
                           ELSE <<"S","t","o","r","e"," ", DigitOf(idx)>>,
            url |-> IF "url" \in DOMAIN r THEN r.url ELSE "",
            reason |-> IF "reason" \in DOMAIN r THEN r.reason ELSE "LLM expert suggestion",
            source |-> "LLM Fallback"]]

\* hybrid_search_and_verify returns its list as it is (lines 161, 172, 186)
final_returned(results) == results

\* __main__: save_search_results(product['id'], results) inserts one row per result
save_search_results(results) == results

final_Finish(results) ==
    /\ result' = final_returned(results)
    /\ saved' = save_search_results(result')
    /\ outcome' = "returned"
    /\ pc' = "done"

final_TextSearch ==
    /\ variant = "final" /\ pc = "start"
    /\ \E items \in TextAnswers(target) :
         LET found == search_product(items)
             matches == final_accept(target, found, "Google Shopping")
         IN /\ shopping_results' = found
            /\ verified_results' = matches
            /\ IF matches # <<>>
               THEN final_Finish(matches)
               ELSE /\ pc' = IF image_url # None THEN "image" ELSE "fallback"
                    /\ UNCHANGED <<result, saved, outcome>>
    /\ calls' = Append(calls, "text")
    /\ UNCHANGED <<variant, target, image_url, lens_results, llm_reply, verifyVars, filterVars, cleanVars, serverVars>>

final_ImageSearch ==
    /\ variant = "final" /\ pc = "image"
    /\ \E items \in Responses(MaxLens) :
         LET found == search_with_google_lens(items)
             matches == verified_results \o final_accept(target, found, "Google Lens")
         IN /\ lens_results' = found
            /\ verified_results' = matches
            /\ IF matches # <<>>
               THEN final_Finish(matches)
               ELSE /\ pc' = "fallback"
                    /\ UNCHANGED <<result, saved, outcome>>
    /\ calls' = Append(calls, "image")
    /\ UNCHANGED <<variant, target, image_url, shopping_results, llm_reply, verifyVars, filterVars, cleanVars, serverVars>>

\* lines 174-186; an exception of the backend call is not caught, and iterating a JSON
\* object yields its keys, which have no .get
final_Fallback ==
    /\ variant = "final" /\ pc = "fallback"
    /\ \E reply \in LLMReplies :
         /\ llm_reply' = reply
         /\ IF reply.api = "raise"
            THEN /\ outcome' = "Exception"
                 /\ pc' = "done"
                 /\ UNCHANGED <<result, saved>>
            ELSE LET fallback_results == llm_fallback_search(reply)
                 IN IF fallback_results.type = "object"
                    THEN /\ outcome' = "AttributeError"
                         /\ pc' = "done"
                         /\ UNCHANGED <<result, saved>>
                    ELSE final_Finish(final_formatted(target, fallback_results.items))
    /\ calls' = Append(calls, "llm")
    /\ UNCHANGED <<variant, target, image_url, shopping_results, lens_results,
                   verified_results, verifyVars, filterVars, cleanVars, serverVars>>

-----------------------------------------------------------------------------
(* WhereToBuyfinalAPIWrapper.py *)

API_text_threshold == 80
API_lens_threshold == 60

\* negative_keywords of filter_with_fuzzy_matching (API wrapper, FuzzyFilterMatching)
negative_keywords ==
    << <<"e","m","p","t","y">>,
       <<"b","o","t","t","l","e"," ","o","n","l","y">>,
       <<"d","e","c","a","n","t","e","d">>,
       <<"d","e","c","a","n","t">>,
       <<"u","s","e","d">>,
       <<"v","i","n","t","a","g","e"," ","b","o","t","t","l","e">>,
       <<"o","l","d"," ","b","o","t","t","l","e">>,
       <<"c","o","l","l","e","c","t","o","r">>,
       <<"d","i","s","p","l","a","y">>,
       <<"o","r","n","a","m","e","n","t","a","l">>,
       <<"s","e","t"," ","o","f">>,
       <<"p","a","c","k"," ","o","f">>,
       <<"l","o","t"," ","o","f">>,
       <<"s","o","u","v","e","n","i","r">>,
       <<"m","i","n","i","a","t","u","r","e">> >>

\* search_product_with_lens: the API wrapper also keeps the price
search_product_with_lens(items) ==
    [i \in DOMAIN items |->
        [product_name |-> items[i].title, store_name |-> items[i].source,
         price |-> items[i].price, link |-> items[i].link,
         thumbnail |-> items[i].thumbnail]]

\* matches.sort(key=similarity_score, reverse=True): stable, highest score first
RECURSIVE InsertByScore(_, _)
InsertByScore(sorted, x) ==
    IF sorted = <<>> THEN <<x>>
    ELSE IF Head(sorted).similarity_score >= x.similarity_score
         THEN <<Head(sorted)>> \o InsertByScore(Tail(sorted), x)
         ELSE <<x>> \o sorted

RECURSIVE SortByScore(_)
SortByScore(xs) ==
    IF xs = <<>> THEN <<>>
    ELSE InsertByScore(SortByScore(SubSeq(xs, 1, Len(xs) - 1)), xs[Len(xs)])

has_negative_keyword(pname) ==
    \E i \in DOMAIN negative_keywords : IsSubstr(negative_keywords[i], pname)

\* filter_with_fuzzy_matching; the score is fuzz.token_set_ratio(target.lower(), pname)
filter_with_fuzzy_matching(results, threshold) ==
    LET keep(item) == /\ ~has_negative_keyword(Lower(item.product_name))
                      /\ FuzzOf(item.product_name).token_set_ratio >= threshold
        scored(item) == Update(item, [similarity_score |->
                                        FuzzOf(item.product_name).token_set_ratio])
        kept == SelectSeq(results, keep)
    IN SortByScore([i \in DOMAIN kept |-> scored(kept[i])])

\* save_places_to_db: the three where_to_buy columns written
save_places_to_db(places) ==
    [i \in 1..3 |-> IF i <= Len(places) THEN places[i].store_name ELSE None]

\* the PlaceInfo records returned
PlaceInfo(r) ==
    [product_name |-> r.product_name, store_name |-> r.store_name, price |-> r.price,
     rating |-> IF "rating" \in DOMAIN r THEN r.rating ELSE "None", link |-> r.link]

\* line 170: if not filtered and product.get("image_url")
API_runs_image(filtered, img) == filtered = <<>> /\ img # None

\* lines 157-159: the product_id does not resolve to a stored product
API_NotFound ==
    /\ variant = "API" /\ pc = "start" /\ target = NoRow
    /\ outcome' = "404 Product not found in DB"
    /\ pc' = "done"
    /\ UNCHANGED <<variant, target, image_url, shopping_results, lens_results,
                   verified_results, llm_reply, calls, result, saved, verifyVars,
                   filterVars, cleanVars, serverVars>>

API_TextSearch ==
    /\ variant = "API" /\ pc = "start" /\ target # NoRow
    /\ \E items \in TextAnswers(target) :
         LET found == search_product(items)
             filtered == filter_with_fuzzy_matching(found, API_text_threshold)
         IN /\ shopping_results' = found
            /\ verified_results' = filtered
            /\ pc' = IF API_runs_image(filtered, image_url) THEN "image" ELSE "return"
    /\ calls' = Append(calls, "text")
    /\ UNCHANGED <<variant, target, image_url, lens_results, llm_reply, result, saved,
                   outcome, verifyVars, filterVars, cleanVars, serverVars>>

API_ImageSearch ==
    /\ variant = "API" /\ pc = "image"
    /\ \E items \in Responses(MaxLens) :
         LET found == search_product_with_lens(items)
         IN /\ lens_results' = found
            /\ verified_results' = filter_with_fuzzy_matching(found, API_lens_threshold)
    /\ calls' = Append(calls, "image")
    /\ pc' = "return"
    /\ UNCHANGED <<variant, target, image_url, shopping_results, llm_reply, result, saved,
                   outcome, verifyVars, filterVars, cleanVars, serverVars>>

\* lines 174-190 of search_drink
API_Return ==
    /\ variant = "API" /\ pc = "return"
    /\ IF verified_results = <<>>
       THEN /\ outcome' = "404 No matching results found"
            /\ UNCHANGED <<result, saved>>
       ELSE /\ saved' = save_places_to_db(verified_results)
            /\ result' = [i \in DOMAIN Take(verified_results, 3) |->
                              PlaceInfo(verified_results[i])]
            /\ outcome' = "returned"
    /\ pc' = "done"
    /\ UNCHANGED <<variant, target, image_url, shopping_results, lens_results,
                   verified_results, llm_reply, calls, verifyVars, filterVars, cleanVars, serverVars>>

-----------------------------------------------------------------------------------------------------------------------------------------------------
(* One call of a verification function on its own *)

Rose == <<"R","o","s","e">>
Dash == <<"-">>     \* a varietal that clean() turns into the empty string
Zen == <<"Z","e","n">>

\* the library's possible answers for one (target, candidate)
FuzzAnswers ==
    [ratio : {60, 89, 90}, partial_ratio : {60}, token_sort_ratio : {79, 84, 85, 100},
     token_set_ratio : {100}, brand_partial_ratio : {40, 90}]

VerifyInputs ==
    [target_name : {Words(<<Oak, Acme, Red, Y2010>>)},
     candidate_name : {it.title : it \in Items},
     store_name : {it.source : it \in Items},
     vintage : {None, Y2010, Y2015},
     varietal : {None, Red, Rose, Dash},
     brand : {None, Acme, Zen},
     threshold : {80, 85},
     high_name_threshold : {90},
     fz : FuzzAnswers]

Verify_TC ==
    /\ variant = "verify" /\ pc = "start"
    /\ vp_out' = [called |-> TRUE, fn |-> "TC",
                  out |-> verify_product_TC(vp_in.target_name, vp_in.candidate_name,
                                            vp_in.vintage, vp_in.varietal,
                                            vp_in.threshold, vp_in.fz)]
    /\ pc' = "done"
    /\ outcome' = "returned"
    /\ UNCHANGED <<variant, target, image_url, shopping_results, lens_results,
                   verified_results, llm_reply, calls, result, saved, vp_in, filterVars, cleanVars, serverVars>>

Verify_Test ==
    /\ variant = "verify" /\ pc = "start"
    /\ vp_out' = [called |-> TRUE, fn |-> "Test",
                  out |-> verify_product_Test(vp_in.target_name, vp_in.candidate_name,
                                              vp_in.store_name, vp_in.brand,
                                              vp_in.threshold, vp_in.high_name_threshold,
                                              vp_in.fz)]
    /\ pc' = "done"
    /\ outcome' = "returned"
    /\ UNCHANGED <<variant, target, image_url, shopping_results, lens_results,
                   verified_results, llm_reply, calls, result, saved, vp_in, filterVars, cleanVars, serverVars>>

Verify_final ==
    /\ variant = "verify" /\ pc = "start"
    /\ vp_out' = [called |-> TRUE, fn |-> "final",
                  out |-> verify_with_brand_priority(vp_in.target_name,
                                                     vp_in.candidate_name, vp_in.brand,
                                                     vp_in.threshold, vp_in.fz)]
    /\ pc' = "done"
    /\ outcome' = "returned"
    /\ UNCHANGED <<variant, target, image_url, shopping_results, lens_results,
                   verified_results, llm_reply, calls, result, saved, vp_in, filterVars, cleanVars, serverVars>>

-----------------------------------------------------------------------------
(* FuzzyFilterMatching.py and EmbeddingFilterMatching.py: one call of a     *)
(* filter on its own.  Scores and thresholds of the embedding filter are in *)
(* hundredths (0.75 is 75).                                                 *)

MaxFilter == 2     \* longest list handed to a stand-alone filter

\* negative_keywords of filter_with_embeddings: the list above without "miniature"
embedding_negative_keywords == SubSeq(negative_keywords, 1, Len(negative_keywords) - 1)

\* texts_to_embed = [target_product] + product_names (lines 82-83)
texts_to_embed(results, target_text) ==
    <<target_text>> \o [i \in DOMAIN results |-> Lower(results[i].product_name)]

\* the requests filter_with_embeddings sends to the embedding backend (line 86)
embedding_requests(results, target_text) == <<texts_to_embed(results, target_text)>>

\* get_embeddings_batch: one vector per input text, in the order of the inputs;
\* a vector is identified by the text it embeds
get_embeddings_batch(texts) == [i \in DOMAIN texts |-> [embedding_of |-> texts[i]]]

\* cosine_similarity: 100 for equal vectors, else what the catalogue gives the second
\* vector's text against the target
cosine_similarity(vec1, vec2) ==
    IF vec1 = vec2 THEN 100
    ELSE IF \E e \in Catalogue : Lower(e.item.title) = vec2.embedding_of
         THEN (CHOOSE e \in Catalogue : Lower(e.item.title) = vec2.embedding_of).fz.cosine
         ELSE 0

\* filter_with_embeddings pairing candidate i with the vector at position i of the
\* response, the target's included (embeddings[1:] replaced by embeddings)
filter_with_embeddings_shifted(results, target_text, threshold) ==
    LET embeddings == get_embeddings_batch(texts_to_embed(results, target_text))
        score(i) == cosine_similarity(embeddings[1], embeddings[i])
        keep(i) ==
            /\ ~\E k \in DOMAIN embedding_negative_keywords :
                   IsSubstr(embedding_negative_keywords[k], Lower(results[i].product_name))
            /\ score(i) >= threshold
        kept == SelectSeq([i \in DOMAIN results |-> i], keep)
    IN SortByScore([k \in DOMAIN kept |->
                       Update(results[kept[k]], [similarity_score |-> score(kept[k])])])

\* filter_with_embeddings (lines 71-109)
filter_with_embeddings(results, target_text, threshold) ==
    LET embeddings == get_embeddings_batch(texts_to_embed(results, target_text))
        target_embedding == embeddings[1]
        product_embeddings == SubSeq(embeddings, 2, Len(embeddings))
        score(i) == cosine_similarity(target_embedding, product_embeddings[i])
        keep(i) ==
            /\ ~\E k \in DOMAIN embedding_negative_keywords :
                   IsSubstr(embedding_negative_keywords[k], Lower(results[i].product_name))
            /\ score(i) >= threshold
        kept == SelectSeq([i \in DOMAIN results |-> i], keep)
    IN SortByScore([k \in DOMAIN kept |->
                       Update(results[kept[k]], [similarity_score |-> score(kept[k])])])

FilterInputs ==
    [results : {search_product_TC(items) : items \in Responses(MaxFilter)},
     target_product : {Words(<<Oak, Acme>>)},
     threshold : {0, 75, 80, 100}]

\* filter_with_fuzzy_matching of FuzzyFilterMatching.py
Filter_fuzzy ==
    /\ variant = "filter" /\ pc = "start"
    /\ ff_out' = [called |-> TRUE, fn |-> "fuzzy",
                  out |-> filter_with_fuzzy_matching(ff_in.results, ff_in.threshold)]
    /\ pc' = "done"
    /\ outcome' = "returned"
    /\ UNCHANGED <<variant, target, image_url, shopping_results, lens_results,
                   verified_results, llm_reply, calls, result, saved, verifyVars,
                   ff_in, embed_requests, cleanVars, serverVars>>

\* filter_with_embeddings of EmbeddingFilterMatching.py
Filter_embeddings ==
    /\ variant = "filter" /\ pc = "start"
    /\ embed_requests' = embed_requests
                            \o embedding_requests(ff_in.results, ff_in.target_product)
    /\ ff_out' = [called |-> TRUE, fn |-> "embeddings",
                  out |-> filter_with_embeddings(ff_in.results, ff_in.target_product,
                                                 ff_in.threshold)]
    /\ pc' = "done"
    /\ outcome' = "returned"
    /\ UNCHANGED <<variant, target, image_url, shopping_results, lens_results,
                   verified_results, llm_reply, calls, result, saved, verifyVars, ff_in,
                   cleanVars, serverVars>>

-----------------------------------------------------------------------------
(* One call of a text normalizer on its own *)

MaxClean == 4      \* longest text handed to clean()

\* an upper-case letter, a lower-case letter, a digit, two kinds of whitespace and a
\* punctuation mark
CleanChars == {"A", "b", "1", " ", "\t", "-"}

\* the empty sequence is both None and ""
CleanInputs == UNION {[1..k -> CleanChars] : k \in 0..MaxClean}

\* clean of WhereToBuyTC.py, applied once and applied to its own result
Clean_TC ==
    /\ variant = "clean" /\ pc = "start"
    /\ cl_out' = [called |-> TRUE, fn |-> "TC", once |-> clean_TC(cl_in),
                  twice |-> clean_TC(clean_TC(cl_in))]
    /\ pc' = "done"
    /\ outcome' = "returned"
    /\ UNCHANGED <<variant, target, image_url, shopping_results, lens_results,
                   verified_results, llm_reply, calls, result, saved, verifyVars,
                   filterVars, cl_in, serverVars>>

\* clean of WhereToBuyTest.py (the same as the one nested in verify_with_brand_priority)
Clean_Test ==
    /\ variant = "clean" /\ pc = "start"
    /\ cl_out' = [called |-> TRUE, fn |-> "Test", once |-> clean(cl_in),
                  twice |-> clean(clean(cl_in))]
    /\ pc' = "done"
    /\ outcome' = "returned"
    /\ UNCHANGED <<variant, target, image_url, shopping_results, lens_results,
                   verified_results, llm_reply, calls, result, saved, verifyVars,
                   filterVars, cl_in, serverVars>>

-----------------------------------------------------------------------------
(* WhereToBuyfinalAPIWrapper.py as a server.  search_drink is a plain def   *)
(* endpoint, which FastAPI runs on a thread pool, so two requests may be in *)
(* progress at once.  Each request opens its own database connection; the   *)
(* statements SELECT and UPDATE ... commit are the atomic steps, and the    *)
(* locals of a request (product, results, filtered) are its own.            *)

MaxConc == 2       \* most items in one text-search answer to a request of the server

ImageUrl == <<"i","m","g">>

ProductIds == {1, 2}

\* the columns of the products table that search_drink reads
ProductRows ==
    [id \in ProductIds |->
        IF id = 1
        THEN [id |-> 1, product_name |-> Oak, producer |-> Acme, varietal |-> Red,
              vintage |-> Y2010, image_url |-> ImageUrl]
        ELSE [id |-> 2, product_name |-> Oak, producer |-> None, varietal |-> None,
              vintage |-> None, image_url |-> None]]

OldStore == <<"O","l","d">>

\* where_to_buy_1..3 of each row before the requests: NULL for product 1, the stores
\* of an earlier run for product 2
InitialTable ==
    [id \in ProductIds |->
        IF id = 1 THEN <<None, None, None>> ELSE <<OldStore, OldStore, OldStore>>]

\* get_product_from_db: SELECT ... FROM products WHERE id=%s, cursor.fetchone()
get_product_from_db(product_id) ==
    IF product_id \in DOMAIN ProductRows THEN ProductRows[product_id] ELSE NoRow

\* the UPDATE without its WHERE clause: every row is written
update_products_all(table, product_id, top_places) == [id \in DOMAIN table |-> top_places]

\* lines 143-146: UPDATE products SET where_to_buy_1=%s, ... WHERE id=%s, commit.
\* The ALTER TABLE ... ADD COLUMN IF NOT EXISTS statements of lines 137-139 change no
\* stored value: the three columns are part of every row of the table here.
update_products(table, product_id, top_places) ==
    [id \in DOMAIN table |-> IF id = product_id THEN top_places ELSE table[id]]

\* a request that has not started, for a stored product or for the id 9 that has no
\* row; after is the number of requests that had ended
\* when this one started
IdleRequest(product_id) ==
    [product_id |-> product_id, pc |-> "idle", product |-> NoRow, results |-> <<>>,
     lens_results |-> <<>>, filtered |-> <<>>, response |-> <<>>, status |-> "running",
     after |-> 0]

ServerRequests == {<<IdleRequest(1), IdleRequest(id)>> : id \in ProductIds \cup {9}}

\* lines 156-159 of search_drink
Server_Lookup ==
    /\ variant = "server"
    /\ \E r \in DOMAIN reqs :
         /\ reqs[r].pc = "idle"
         /\ LET product == get_product_from_db(reqs[r].product_id)
            IN IF product = NoRow
               THEN /\ reqs' = [reqs EXCEPT ![r].pc = "done",
                                            ![r].status = "404 Product not found in DB",
                                            ![r].after = Len(finished)]
                    /\ finished' = Append(finished, r)
               ELSE /\ reqs' = [reqs EXCEPT ![r].pc = "start", ![r].product = product,
                                            ![r].after = Len(finished)]
                    /\ UNCHANGED finished
    /\ UNCHANGED <<cascadeVars, verifyVars, filterVars, cleanVars, db>>

\* lines 161-167 of search_drink
Server_TextSearch ==
    /\ variant = "server"
    /\ \E r \in DOMAIN reqs :
         /\ reqs[r].pc = "start"
         /\ \E items \in Responses(MaxConc) :
              LET found == search_product(items)
                  filtered == filter_with_fuzzy_matching(found, API_text_threshold)
              IN reqs' = [reqs EXCEPT
                            ![r].results = found,
                            ![r].filtered = filtered,
                            ![r].pc = IF API_runs_image(filtered, reqs[r].product.image_url)
                                      THEN "image" ELSE "return"]
    /\ UNCHANGED <<cascadeVars, verifyVars, filterVars, cleanVars, db, finished>>

\* lines 170-172 of search_drink
Server_ImageSearch ==
    /\ variant = "server"
    /\ \E r \in DOMAIN reqs :
         /\ reqs[r].pc = "image"
         /\ \E items \in Responses(MaxLens) :
              LET found == search_product_with_lens(items)
              IN reqs' = [reqs EXCEPT
                            ![r].lens_results = found,
                            ![r].filtered =
                                filter_with_fuzzy_matching(found, API_lens_threshold),
                            ![r].pc = "return"]
    /\ UNCHANGED <<cascadeVars, verifyVars, filterVars, cleanVars, db, finished>>

\* lines 174-190 of search_drink, with save_places_to_db
Server_Return ==
    /\ variant = "server"
    /\ \E r \in DOMAIN reqs :
         /\ reqs[r].pc = "return"
         /\ IF reqs[r].filtered = <<>>
            THEN /\ reqs' = [reqs EXCEPT ![r].pc = "done",
                                         ![r].status = "404 No matching results found"]
                 /\ UNCHANGED db
            ELSE /\ db' = update_products(db, reqs[r].product.id,
                                          save_places_to_db(reqs[r].filtered))
                 /\ reqs' = [reqs EXCEPT
                               ![r].pc = "done",
                               ![r].status = "returned",
                               ![r].response =
                                   [i \in DOMAIN Take(reqs[r].filtered, 3) |->
                                       PlaceInfo(reqs[r].filtered[i])]]
         /\ finished' = Append(finished, r)
    /\ UNCHANGED <<cascadeVars, verifyVars, filterVars, cleanVars>>

-----------------------------------------------------------------------------
(* A search backend that fails.  GoogleSearch(params).get_dict() is called  *)
(* by search_product, search_with_google_lens and search_product_with_lens  *)
(* outside any try block, and hybrid_search, hybrid_search_and_verify,      *)
(* search_drink and the __main__ blocks call these outside any try block:   *)
(* the exception leaves the run.                                            *)

Variants == {"TC", "Test", "final", "API"}

Search_Raises ==
    /\ variant \in Variants /\ pc \in {"start", "image"} /\ target # NoRow
    /\ calls' = Append(calls, IF pc = "start" THEN "text" ELSE "image")
    /\ outcome' = "BackendError"
    /\ pc' = "done"
    /\ UNCHANGED <<variant, target, image_url, shopping_results, lens_results,
                   verified_results, llm_reply, result, saved, verifyVars, filterVars, cleanVars, serverVars>>

-----------------------------------------------------------------------------
(* The cascade as a state machine.  variant selects the script that runs;  *)
(* "verify" is a direct call of one verification function, "filter" of one *)
(* stand-alone filter, "clean" of one text normalizer, "server" the API    *)
(* wrapper serving two requests.                                           *)

NoCall == [called |-> FALSE]

Init ==
    /\ pc = "start"
    /\ shopping_results = <<>>
    /\ lens_results = <<>>
    /\ verified_results = <<>>
    /\ llm_reply = [api |-> "not called"]
    /\ calls = <<>>
    /\ result = <<>>
    /\ saved = <<>>
    /\ outcome = "running"
    /\ vp_out = NoCall
    /\ ff_out = NoCall
    /\ embed_requests = <<>>
    /\ cl_out = NoCall
    /\ finished = <<>>
    /\ \/ /\ variant \in Variants
          /\ target \in Targets
          /\ image_url \in (IF target.product_name = None THEN {None}
                            ELSE {None, ImageUrl})
          /\ vp_in = NoCall
          /\ ff_in = NoCall
          /\ cl_in = None
       \/ /\ variant = "API"
          /\ target = NoRow
          /\ image_url = None
          /\ vp_in = NoCall
          /\ ff_in = NoCall
          /\ cl_in = None
       \/ /\ variant = "verify"
          /\ target = [product_name |-> Oak, producer |-> None, varietal |-> None,
                       vintage |-> None]
          /\ image_url = None
          /\ vp_in \in VerifyInputs
          /\ ff_in = NoCall
          /\ cl_in = None
       \/ /\ variant = "filter"
          /\ target = [product_name |-> Oak, producer |-> None, varietal |-> None,
                       vintage |-> None]
          /\ image_url = None
          /\ vp_in = NoCall
          /\ ff_in \in FilterInputs
          /\ cl_in = None
       \/ /\ variant = "clean"
          /\ target = [product_name |-> Oak, producer |-> None, varietal |-> None,
                       vintage |-> None]
          /\ image_url = None
          /\ vp_in = NoCall
          /\ ff_in = NoCall
          /\ cl_in \in CleanInputs
       \/ /\ variant = "server"
          /\ target = NoRow
          /\ image_url = None
          /\ vp_in = NoCall
          /\ ff_in = NoCall
          /\ cl_in = None
    /\ db = (IF variant = "server" THEN InitialTable ELSE <<>>)
    /\ reqs \in (IF variant = "server" THEN ServerRequests ELSE {<<>>})

Next ==
    \/ TC_TextSearch \/ TC_ImageSearch \/ TC_Fallback \/ TC_Return
    \/ Test_TextSearch \/ Test_ImageSearch \/ Test_Return
    \/ final_TextSearch \/ final_ImageSearch \/ final_Fallback
    \/ API_NotFound \/ API_TextSearch \/ API_ImageSearch \/ API_Return
    \/ Verify_TC \/ Verify_Test \/ Verify_final
    \/ Filter_fuzzy \/ Filter_embeddings
    \/ Clean_TC \/ Clean_Test
    \/ Server_Lookup \/ Server_TextSearch \/ Server_ImageSearch \/ Server_Return
    \/ Search_Raises

Spec == Init /\ [][Next]_vars

-----------------------------------------------------------------------------
(* Properties *)

Called(backend) == backend \in Range(calls)

IsSuggested(e) ==
    \/ "category" \in DOMAIN e /\ e.category = "Suggested"
    \/ "source" \in DOMAIN e /\ e.source = "LLM Fallback"

\* what the API wrapper's filter keeps at a threshold
API_keeps(r, threshold) ==
    /\ ~has_negative_keyword(Lower(r.product_name))
    /\ FuzzOf(r.product_name).token_set_ratio >= threshold

\* the verification step's is_match for a candidate of the text / image stage
MatchesText(r) ==
    CASE variant = "TC" -> TC_verdict(target, r).match
      [] variant = "Test" -> Test_verdict(target, r).match
      [] variant = "final" -> final_verdict(target, r).match
      [] variant = "API" -> API_keeps(r, API_text_threshold)
      [] OTHER -> FALSE

MatchesLens(r) ==
    IF variant = "API" THEN API_keeps(r, API_lens_threshold) ELSE MatchesText(r)

TextMatched == \E r \in Range(shopping_results) : MatchesText(r)
LensMatched == \E r \in Range(lens_results) : MatchesLens(r)

Finished == pc = "done" /\ variant \in Variants

\* C1 (as stated): in every variant the image search backend is called only if a
\* reference image is available and the text stage accepted no candidate.
C1_ImageOnlyAfterEmptyText ==
    Called("image") => (image_url # None /\ ~TextMatched)

\* C1 (amended): the image search is called only if a reference image is available;
\* in WhereToBuyTest.hybrid_search, hybrid_search_and_verify and search_drink only if
\* moreover the text stage accepted no candidate; WhereToBuyTC.hybrid_search calls it
\* whenever a reference image is available and the text search returned, whatever
\* the text stage accepted.
C1_ImageStageGuard ==
    /\ Called("image") => image_url # None
    /\ (variant \in {"Test", "final", "API"} /\ Called("image")) => ~TextMatched
    /\ (variant = "TC" /\ image_url # None /\ pc \in {"fallback", "return", "done"}
          /\ outcome # "BackendError")
          => Called("image")

C1_Witness ==
    /\ variant = "final" /\ Called("image")
    /\ shopping_results # <<>> /\ image_url # None

\* C2: the generative fallback is called only if neither the text stage nor the image
\* stage accepted a candidate; when either accepted one, the fallback is not called
\* and the result holds no Suggested entry.
C2_FallbackOnlyWhenNothingAccepted ==
    /\ Called("llm") => (~TextMatched /\ ~LensMatched)
    /\ (Finished /\ (TextMatched \/ LensMatched))
          => (~Called("llm") /\ \A e \in Range(result) : ~IsSuggested(e))

C2_Witness ==
    /\ Called("llm") /\ Called("image") /\ pc = "done"
    /\ shopping_results # <<>> /\ lens_results # <<>>
    /\ result # <<>>

FallbackFailed ==
    \/ llm_reply.api = "raise"
    \/ llm_reply.form = "garbage"
    \/ llm_reply.value.type = "object"
    \/ llm_reply.value.items = <<>>

\* C3: when text search returns no candidate and no image is available, the fallback
\* runs and the run returns a non-empty result of Suggested entries, exactly one when
\* the fallback backend fails; it never ends empty or with an exception.
C3_FallbackNeverEmpty ==
    (Finished /\ variant \in {"TC", "final"} /\ shopping_results = <<>> /\ image_url = None)
       => /\ Called("llm")
          /\ outcome = "returned"
          /\ result # <<>>
          /\ \A e \in Range(result) : IsSuggested(e)
          /\ FallbackFailed => Len(result) = 1

\* is_match of the verification step for an accepted entry of the running variant
EntryMatches(e) ==
    CASE variant = "TC" -> /\ TC_verdict(target, e).match
                           /\ TC_verdict(target, e).status # "Rejected"
      [] variant = "Test" -> /\ Test_verdict(target, e).match
                             /\ Test_verdict(target, e).status # "Rejected"
      [] variant = "final" -> final_verdict(target, e).match
      [] variant = "API" -> API_keeps(e, IF Called("image") THEN API_lens_threshold
                                         ELSE API_text_threshold)
      [] OTHER -> FALSE

\* C4: no candidate the verification step rejected (is_match false) is among the
\* accepted candidates or in the returned result.
C4_NoRejectedInResult ==
    \A e \in Range(verified_results) \cup Range(result) : IsSuggested(e) \/ EntryMatches(e)

C4_Witness ==
    /\ variant = "TC" /\ pc = "done" /\ result # <<>>
    /\ \E r \in Range(shopping_results) : ~TC_verdict(target, r).match
    /\ \E r \in Range(lens_results) : ~TC_verdict(target, r).match

\* the number of entries written by persistence
PersistedCount ==
    CASE variant = "final" -> Len(saved)
      [] variant = "TC" -> Cardinality({i \in DOMAIN saved : saved[i].name # None})
      [] variant = "API" -> Cardinality({i \in DOMAIN saved : saved[i] # None})
      [] OTHER -> 0

\* C5: the result returned to the caller, and what is handed to persistence, holds at
\* most 3 entries.
C5_AtMostThree ==
    Finished => (Len(result) <= 3 /\ PersistedCount <= 3)

Link(e) == IF "link" \in DOMAIN e THEN e.link ELSE e.url

\* C6: the final result holds no two entries with the same (store_name, link) pair.
C6_NoDuplicateStoreLink ==
    Finished =>
        \A i, j \in DOMAIN result :
            i # j => <<result[i].store_name, Link(result[i])>>
                       # <<result[j].store_name, Link(result[j])>>

Rank(e) ==
    CASE e.category = "Verified" -> 1
      [] e.category = "Likely" -> 2
      [] OTHER -> 3

\* C7: the final result is ordered Verified before Likely before Suggested, by
\* descending confidence within a tier, and the truncation to 3 keeps the
\* highest-ranked entries.
C7_RankedByTierThenConfidence ==
    (Finished /\ variant \in {"TC", "Test"}) =>
        /\ \A i, j \in DOMAIN result :
              i < j => /\ Rank(result[i]) <= Rank(result[j])
                       /\ ("confidence" \in DOMAIN result[i]
                             /\ "confidence" \in DOMAIN result[j]
                             /\ Rank(result[i]) = Rank(result[j]))
                          => result[i].confidence >= result[j].confidence
        /\ \A d \in Range(verified_results) \ Range(result) :
              \A e \in Range(result) : Rank(e) <= Rank(d)

\* the name score a verification function computes for vp_in
NameScore(fn) ==
    IF fn = "TC" THEN vp_in.fz.token_sort_ratio
    ELSE Max(vp_in.fz.ratio, Max(vp_in.fz.partial_ratio, vp_in.fz.token_sort_ratio))

C9_NameGate ==
    (vp_out.called /\ NameScore(vp_out.fn) < vp_in.threshold)
       => /\ vp_out.out.match = FALSE
          /\ vp_out.fn \in {"TC", "Test"} => vp_out.out.status = "Rejected"

C9_Witness ==
    /\ vp_out.called /\ vp_out.fn = "Test"
    /\ NameScore("Test") < vp_in.threshold
    /\ vp_in.brand = Acme /\ IsSubstr(Acme, vp_in.candidate_name)
    /\ vp_in.store_name = <<"T","e","s","c","o">>
    /\ vp_out.out.status = "Rejected"

StrongBrandMatch(fn) ==
    /\ vp_out.called /\ vp_out.fn = fn
    /\ vp_in.brand # None /\ IsSubstr(vp_in.brand, vp_in.candidate_name)
    /\ NameScore(fn) >= vp_in.threshold

\* C10 (as stated): with a target producer that the candidate name contains and a
\* name score at or above the threshold, the candidate is classified Verified.
C10_StrongBrandIsVerified ==
    \A fn \in {"TC", "Test"} :
        StrongBrandMatch(fn) => (vp_out.out.match /\ vp_out.out.status = "Verified")

\* the tier the verification step of the running variant gives a candidate
TierOf(r) ==
    IF variant = "TC" THEN TC_verdict(target, r).status ELSE Test_verdict(target, r).status

SameListing(e, r) ==
    /\ e.product_name = r.product_name /\ e.store_name = r.store_name
    /\ e.link = r.link

\* C10 (amended): WhereToBuyTest.verify_product classifies such a candidate Verified;
\* WhereToBuyTC.verify_product, which has no brand gate, does so when the vintage gate
\* passes and the varietal is not missing from the name.  A candidate classified
\* Verified is accepted, and is in the result when the run accepted at most three.
C10_StrongBrand ==
    /\ StrongBrandMatch("Test") => (vp_out.out.match /\ vp_out.out.status = "Verified")
    /\ (StrongBrandMatch("TC")
          /\ (vp_in.vintage = None \/ IsSubstr(vp_in.vintage, vp_in.candidate_name))
          /\ (vp_in.varietal = None
                \/ IsSubstr(clean_TC(vp_in.varietal), clean_TC(vp_in.candidate_name))))
         => (vp_out.out.match /\ vp_out.out.status = "Verified")
    /\ (Finished /\ variant \in {"TC", "Test"} /\ outcome = "returned")
         => \A r \in Range(shopping_results) \cup Range(lens_results) :
               TierOf(r) = "Verified"
                  => /\ \E e \in Range(verified_results) :
                           SameListing(e, r) /\ e.category = "Verified"
                     /\ Len(verified_results) <= 3
                           => \E e \in Range(result) :
                                 SameListing(e, r) /\ e.category = "Verified"

C10_Witness ==
    /\ variant = "Test" /\ pc = "done"
    /\ target.producer = Acme /\ target.vintage = None
    /\ Len(shopping_results) = 1
    /\ shopping_results[1].product_name = Words(<<Oak, Acme, Red, Y2010>>)
    /\ Len(result) = 1 /\ result[1].category = "Verified"

\* the store name holds a fragment of the e-commerce allowlist
OnAllowlist(store) ==
    \E i \in DOMAIN e_commerce_sites : IsSubstr(e_commerce_sites[i], clean(store))

\* fuzz.partial_ratio(brand_clean, candidate_clean) for vp_in
BrandScore ==
    partial_ratio(clean(vp_in.brand), clean(vp_in.candidate_name),
                  vp_in.fz.brand_partial_ratio)

\* verify_product of WhereToBuyTest was called on a candidate that passed the name
\* gate and whose name does not match the producer (or no producer was given)
WeakBrandMatch ==
    /\ vp_out.called /\ vp_out.fn = "Test"
    /\ NameScore("Test") >= vp_in.threshold
    /\ (vp_in.brand = None \/ BrandScore < BrandMatchLevel)

\* C11 (as stated): a candidate past the name gate whose name does not match the
\* producer is Likely if its store is on the e-commerce allowlist or its name score
\* exceeds the high threshold, and Rejected otherwise.
C11_WeakBrandExceedsHigh ==
    WeakBrandMatch
       => vp_out.out.status =
             IF OnAllowlist(vp_in.store_name) \/ NameScore("Test") > vp_in.high_name_threshold
             THEN "Likely" ELSE "Rejected"

\* C11 (amended): in WhereToBuyTest.verify_product such a candidate is Likely (and
\* accepted) if its store is on the allowlist or its name score is at or above the
\* high threshold, Rejected otherwise, never Verified; verify_with_brand_priority of
\* WhereToBuyfinal rejects every candidate whose name does not contain the producer.
C11_WeakBrand ==
    /\ WeakBrandMatch
          => /\ vp_out.out.status =
                   IF OnAllowlist(vp_in.store_name)
                      \/ NameScore("Test") >= vp_in.high_name_threshold
                   THEN "Likely" ELSE "Rejected"
             /\ vp_out.out.match = (vp_out.out.status = "Likely")
    /\ (vp_out.called /\ vp_out.fn = "final" /\ vp_in.brand # None
          /\ ~IsSubstr(clean(vp_in.brand), clean(vp_in.candidate_name)))
         => vp_out.out.match = FALSE

C11_Witness ==
    /\ WeakBrandMatch /\ vp_in.brand = Zen
    /\ ~OnAllowlist(vp_in.store_name)
    /\ NameScore("Test") = vp_in.high_name_threshold
    /\ vp_out.out.status = "Likely"

\* verify_product of WhereToBuyTC was called on a candidate that passes the vintage
\* gate and the name gate
PassedEarlierGates ==
    /\ vp_out.called /\ vp_out.fn = "TC"
    /\ (vp_in.vintage = None \/ IsSubstr(vp_in.vintage, vp_in.candidate_name))
    /\ NameScore("TC") >= vp_in.threshold

\* a varietal is given and the normalized candidate name does not contain it
VarietalAbsent ==
    /\ vp_in.varietal # None
    /\ ~IsSubstr(clean_TC(vp_in.varietal), clean_TC(vp_in.candidate_name))

\* C12: the varietal gate is soft: a candidate past the earlier gates is accepted; when
\* the varietal is given and absent from the normalized name the tier is Likely and the
\* confidence is the name score times 0.9 rounded down; otherwise the tier is Verified
\* and the confidence is the name score.
C12_VarietalSoftGate ==
    PassedEarlierGates
       => /\ vp_out.out.match
          /\ IF VarietalAbsent
             THEN /\ vp_out.out.status = "Likely"
                  /\ 10 * vp_out.out.confidence <= 9 * NameScore("TC")
                  /\ 9 * NameScore("TC") < 10 * (vp_out.out.confidence + 1)
             ELSE /\ vp_out.out.status = "Verified"
                  /\ vp_out.out.confidence = NameScore("TC")

C12_Witness ==
    /\ PassedEarlierGates /\ VarietalAbsent
    /\ vp_in.varietal = Rose /\ vp_in.vintage = Y2010
    /\ NameScore("TC") = 85
    /\ vp_out.out.status = "Likely" /\ vp_out.out.confidence = 76

\* C13: every candidate whose lower-cased name contains a keyword of the negative list
\* is excluded from the output of filter_with_fuzzy_matching and of
\* filter_with_embeddings, whatever its score and the threshold.
C13_NegativeKeywordExcluded ==
    /\ ff_out.called
          => \A e \in Range(ff_out.out) : ~has_negative_keyword(Lower(e.product_name))
    /\ variant = "API"
          => \A e \in Range(verified_results) : ~has_negative_keyword(Lower(e.product_name))

\* C14: a candidate reaches the verification step only after surviving the
\* negative-keyword filter, so no candidate whose name contains a negative keyword is
\* accepted as Verified or Likely or appears in the result of hybrid_search /
\* hybrid_search_and_verify.
C14_FilterBeforeVerify ==
    variant \in {"TC", "Test", "final"}
       => \A e \in Range(verified_results) \cup Range(result) :
             IsSuggested(e) \/ ~has_negative_keyword(Lower(e.product_name))

\* C15: a failure of the text-search or image-search backend call is treated as a
\* stage with zero candidates and the cascade proceeds; the failure never ends the run.
C15_BackendFailureRecovered ==
    variant \in Variants => outcome # "BackendError"

\* the request names no product (the product name is empty)
InvalidTarget == variant \in Variants /\ target # NoRow /\ target.product_name = None

\* C16: a request whose product name is empty or absent is rejected at once with an
\* explicit error, and no backend call is made for it.
C16_InvalidTargetRejected ==
    InvalidTarget => /\ calls = <<>>
                     /\ pc = "done" => outcome = "InvalidTarget"

\* the generative backend answered, and its reply holds a non-empty JSON array
ReplyHoldsList ==
    /\ llm_reply.api = "ok" /\ llm_reply.form # "garbage"
    /\ llm_reply.value.type = "array" /\ llm_reply.value.items # <<>>

\* the reply is not the expected list alone: no JSON, JSON inside a fence or prose, a
\* JSON object, or an empty list
MalformedReply ==
    /\ llm_reply.api = "ok"
    /\ \/ llm_reply.form # "json"
       \/ llm_reply.value.type = "object"
       \/ llm_reply.value.items = <<>>

\* C17: on a malformed reply of the generative backend the fallback does not fail: it
\* yields the list extracted from the raw text when there is one, and otherwise
\* exactly one synthesized generic-retailer suggestion.
C17_MalformedReplyRecovered ==
    (variant \in {"TC", "final"} /\ pc = "done" /\ Called("llm") /\ MalformedReply)
       => /\ outcome = "returned"
          /\ IF ReplyHoldsList
             THEN /\ Len(result) = Len(llm_reply.value.items)
                  /\ \A i \in DOMAIN result :
                        "store_name" \in DOMAIN llm_reply.value.items[i]
                           => result[i].store_name = llm_reply.value.items[i].store_name
             ELSE /\ Len(result) = 1
                  /\ result[1].store_name = GenericRetailer.store_name

\* C18: search_drink signals "not found" exactly when the product identifier does not
\* resolve to a stored product, signals "no match" exactly when the result is empty
\* after text search, image search (if an image exists) and the generative fallback
\* have been tried, and otherwise returns at most 3 place records.
C18_SearchDrinkSignals ==
    (variant = "API" /\ pc = "done" /\ outcome # "BackendError")
       => /\ (outcome = "404 Product not found in DB") <=> (target = NoRow)
          /\ (outcome = "404 No matching results found")
                => /\ verified_results = <<>>
                   /\ Called("text")
                   /\ image_url # None => Called("image")
                   /\ Called("llm")
          /\ (outcome = "returned")
                => (result # <<>> /\ Len(result) <= 3)

EmbeddingFilterCalled == ff_out.called /\ ff_out.fn = "embeddings"

\* C19: one call of filter_with_embeddings makes exactly one embedding request, which
\* carries the target followed by the names of all candidates in their order, and
\* every candidate kept is scored by the similarity of the target's vector and its own.
C19_SingleEmbeddingBatch ==
    /\ EmbeddingFilterCalled
          => /\ Len(embed_requests) = 1
             /\ Len(embed_requests[1]) = 1 + Len(ff_in.results)
             /\ embed_requests[1][1] = ff_in.target_product
             /\ \A i \in DOMAIN ff_in.results :
                   embed_requests[1][i + 1] = Lower(ff_in.results[i].product_name)
             /\ \A e \in Range(ff_out.out) :
                   e.similarity_score = FuzzOf(e.product_name).cosine
    /\ ~EmbeddingFilterCalled => embed_requests = <<>>

C19_Witness ==
    /\ EmbeddingFilterCalled
    /\ Len(ff_in.results) = 2 /\ Len(ff_out.out) = 2
    /\ ff_out.out[1].product_name = ff_in.results[2].product_name
    /\ ff_out.out[1].similarity_score > ff_out.out[2].similarity_score
    /\ Len(embed_requests[1]) = 3

\* the entry was produced by the generative fallback stage
FromFallback(e) == "source" \in DOMAIN e /\ e.source = "LLM Fallback"

HasTier(e, tier) == "category" \in DOMAIN e /\ e.category = tier

\* the suggestions the fallback stage of the running variant obtained from the reply
FallbackSuggestions ==
    IF variant = "TC" THEN query_llm_for_places(llm_reply).items
    ELSE llm_fallback_search(llm_reply).items

\* C20: every entry produced by the generative fallback stage carries the tier
\* Suggested and is included without passing the verification step, and no entry of
\* the text or image stage carries the tier Suggested.
C20_FallbackEntriesSuggested ==
    variant \in {"TC", "final"}
       => /\ \A e \in Range(verified_results) \cup Range(result) :
                FromFallback(e) <=> HasTier(e, "Suggested")
          /\ (pc = "done" /\ outcome = "returned" /\ Called("llm"))
                => /\ Len(FallbackSuggestions) <= 3 => Len(result) = Len(FallbackSuggestions)
                   /\ \A e \in Range(result) : FromFallback(e)

AllWhitespace(text) == \A i \in DOMAIN text : text[i] \in Whitespace

\* C21: clean() is idempotent, clean(clean(x)) = clean(x), and maps empty, absent and
\* all-whitespace input to the empty string.
C21_CleanIdempotent ==
    cl_out.called
       => /\ cl_out.twice = cl_out.once
          /\ AllWhitespace(cl_in) => cl_out.once = <<>>

C21_Witness ==
    /\ cl_out.called /\ cl_out.fn = "TC"
    /\ cl_in = <<" ", "A", "-", "b">>
    /\ cl_out.once = <<"a", " ", "b">>

HasLikely(entries) == \E i \in DOMAIN entries : entries[i].category = "Likely"

VerifiedBeforeLikely(entries) ==
    \E i \in DOMAIN entries :
        /\ entries[i].category = "Likely"
        /\ Cardinality({j \in 1..(i - 1) : entries[j].category = "Verified"}) >= 3

\* C22: in the "at least one Likely" variant of hybrid_search, when the accepted
\* candidates contain a Likely one, the returned result has at most three entries, all
\* of them accepted candidates, and at least one of them is Likely.
C22_LikelyIncluded ==
    (variant = "Test" /\ pc = "done" /\ outcome = "returned")
       => /\ Len(result) <= 3
          /\ Range(result) \subseteq Range(verified_results)
          /\ HasLikely(verified_results) => HasLikely(result)

C22_Witness ==
    /\ variant = "Test" /\ pc = "done" /\ outcome = "returned"
    /\ VerifiedBeforeLikely(verified_results)
    /\ HasLikely(result)
    /\ Len(result) = 3

\* the similarity score the ranking step of filter function fn gives candidate r
RankScore(r, fn) ==
    IF fn = "embeddings" THEN FuzzOf(r.product_name).cosine
    ELSE FuzzOf(r.product_name).token_set_ratio

\* out is the stable, complete ranking of the candidates of source: those with no
\* negative keyword and a score of at least threshold, each carrying its score, in
\* non-increasing order of score, candidates of equal score in their order in source
StableRanking(out, source, threshold, fn) ==
    LET expected == SelectSeq(source, LAMBDA r :
                        /\ ~has_negative_keyword(Lower(r.product_name))
                        /\ RankScore(r, fn) >= threshold)
    IN /\ \A i, j \in DOMAIN out :
             i < j => out[i].similarity_score >= out[j].similarity_score
       /\ \A v \in 0..100 :
             LET same == SelectSeq(expected, LAMBDA r : RankScore(r, fn) = v)
             IN SelectSeq(out, LAMBDA e : e.similarity_score = v)
                   = [i \in DOMAIN same |-> Update(same[i], [similarity_score |-> v])]
       /\ \A e \in Range(out) : e.similarity_score \in 0..100

\* C23: the output of filter_with_fuzzy_matching / filter_with_embeddings is exactly
\* the candidates with no negative keyword and a score of at least the threshold, in
\* non-increasing order of score, candidates of equal score in their backend order.
C23_RankingStableComplete ==
    /\ ff_out.called
          => StableRanking(ff_out.out, ff_in.results, ff_in.threshold, ff_out.fn)
    /\ (variant = "API" /\ Called("image"))
          => StableRanking(verified_results, lens_results, API_lens_threshold, "fuzzy")
    /\ (variant = "API" /\ Called("text") /\ ~Called("image"))
          => StableRanking(verified_results, shopping_results, API_text_threshold, "fuzzy")

\* C25: verify_product returns an outcome whose boolean and tier agree: is_match is
\* true exactly when the tier is Verified or Likely, false exactly when it is Rejected,
\* and the reason is never empty.
C25_OutcomeConsistent ==
    (vp_out.called /\ vp_out.fn \in {"TC", "Test"})
       => /\ vp_out.out.match \in BOOLEAN
          /\ vp_out.out.status \in {"Verified", "Likely", "Rejected"}
          /\ vp_out.out.match <=> vp_out.out.status \in {"Verified", "Likely"}
          /\ ~vp_out.out.match <=> vp_out.out.status = "Rejected"
          /\ vp_out.out.reason # <<>>

C25_Witness ==
    /\ vp_out.called /\ vp_out.fn = "Test"
    /\ vp_in.brand = None
    /\ NameScore("Test") >= vp_in.threshold
    /\ NameScore("Test") < vp_in.high_name_threshold
    /\ ~OnAllowlist(vp_in.store_name)
    /\ ~vp_out.out.match /\ vp_out.out.status = "Rejected"
    /\ Len(vp_out.out.reason) = 2

\* the product of request q was found by get_product_from_db
Found(q) == q.product # NoRow

\* what search_drink keeps for request q when it runs alone on the answers q received
AloneFiltered(q) ==
    LET first == filter_with_fuzzy_matching(q.results, API_text_threshold)
    IN IF first = <<>> /\ q.product.image_url # None
       THEN filter_with_fuzzy_matching(q.lens_results, API_lens_threshold)
       ELSE first

\* the where-to-buy slots that hold the stores of entries, NULL beyond them
SlotsOf(entries) == [i \in 1..3 |-> IF i <= Len(entries) THEN entries[i].store_name ELSE None]

\* some request for product id has ended with a save
SavedFor(id) ==
    \E r \in DOMAIN reqs :
        reqs[r].product_id = id /\ reqs[r].pc = "done" /\ reqs[r].status = "returned"

\* C24: under every interleaving of two search_drink requests for distinct product
\* ids, each request returns, and persists for its own product, the same result as if
\* it had run alone; the stored slots of a product are affected by no other request.
C24_RequestsIndependent ==
    (variant = "server" /\ reqs[1].product_id # reqs[2].product_id)
       => /\ \A r \in DOMAIN reqs :
                (reqs[r].pc = "done" /\ Found(reqs[r]))
                   => LET alone == AloneFiltered(reqs[r])
                          id == reqs[r].product_id
                      IN IF alone = <<>>
                         THEN /\ reqs[r].status = "404 No matching results found"
                              /\ reqs[r].response = <<>>
                              /\ db[id] = InitialTable[id]
                         ELSE /\ reqs[r].status = "returned"
                              /\ reqs[r].response =
                                    [i \in 1..Len(Take(alone, 3)) |-> PlaceInfo(alone[i])]
                              /\ db[id] = SlotsOf(alone)
          /\ \A id \in ProductIds : ~SavedFor(id) => db[id] = InitialTable[id]

C24_Witness ==
    /\ variant = "server"
    /\ reqs[1].product_id = 1 /\ reqs[2].product_id = 2
    /\ reqs[1].status = "returned" /\ reqs[2].status = "returned"
    /\ reqs[1].after = 0 /\ reqs[2].after = 0
    /\ finished = <<2, 1>>
    /\ db[1] # db[2]
    /\ Len(reqs[1].response) = 2 /\ Len(reqs[2].response) = 1

\* the requests for product id that have ended, the product having been found
RunsFor(id) ==
    {r \in DOMAIN reqs : reqs[r].product_id = id /\ reqs[r].pc = "done" /\ Found(reqs[r])}

\* the run for product id that ended last
LatestRun(id) ==
    CHOOSE r \in RunsFor(id) :
        \A i, j \in DOMAIN finished : (finished[i] = r /\ finished[j] \in RunsFor(id)) => j <= i

\* C26: persisting a result writes all three where-to-buy slots of the product, slot i
\* holding the store (and url) of the i-th result entry and NULL beyond the last entry,
\* so after any sequence of runs for a product its slots reflect the latest run only,
\* and the rows of other products are unchanged.
C26_SlotsReflectLatestRun ==
    /\ variant = "server"
          => \A id \in ProductIds :
                IF RunsFor(id) = {} THEN db[id] = InitialTable[id]
                ELSE db[id] = SlotsOf(reqs[LatestRun(id)].filtered)
    /\ (variant = "TC" /\ pc = "done" /\ outcome = "returned")
          => \A i \in 1..3 :
                IF i <= Len(result)
                THEN /\ saved[i].name = result[i].store_name
                     /\ result[i].link # "None" => saved[i].url = result[i].link
                ELSE saved[i] = [name |-> None, url |-> "None"]

====
